---- MODULE Spec2Model ----
(***************************************************************************)
(* HttpBlueprintAPI: UHttpBlueprintFunctionLibrary                         *)
(*                                                                         *)
(* A request is issued by MakeHttpGetRequest, MakeHttpPostRequest or       *)
(* MakeHttpRequestWithHeaders.  The issuing call validates the request,    *)
(* builds the transport request and starts it.  The transport later fires  *)
(* OnHttpRequestComplete on one of its threads; that handler normalises    *)
(* the outcome (ProcessHttpResponse) and queues a task to the game thread, *)
(* which runs the caller's delegate.                                       *)
(*                                                                         *)
(* Text the code inspects (URL, method, header lines, header names) is a   *)
(* sequence of one-character strings; text the code only formats, passes   *)
(* on or tests for emptiness (bodies, messages) is a string.               *)
(***************************************************************************)
EXTENDS Integers, Sequences, FiniteSets, TLC

VARIABLES
    lifecycle,   \* request -> the states the request has passed through
    issued,      \* request -> what the caller passed to the issuing call
    transport,   \* request -> the transport request built by CreateHttpRequest
    inflight,    \* requests the transport accepted and has not completed
    outcome,     \* request -> what the transport delivered to OnHttpRequestComplete
    responseData,\* request -> the FHttpResponseData ProcessHttpResponse returned
    tasks,       \* request -> tasks queued by AsyncTask and not yet run
    calls,       \* request -> invocations of the caller's delegate
    log,         \* request -> UE_LOG entries written for the request
    utility      \* the last call of a utility function: its argument and result

vars == <<lifecycle, issued, transport, inflight, outcome, responseData, tasks, calls, log,
          utility>>

----------------------------------------------------------------------------
(* Bounds *)

\* Requests issued concurrently.
MaxRequests == 2

\* The utility functions are called with the codes -MaxCode..MaxCode.
MaxCode == 700

Requests == 1..MaxRequests

----------------------------------------------------------------------------
(* FString *)

LowerChars == <<"a","b","c","d","e","f","g","h","i","j","k","l","m",
                "n","o","p","q","r","s","t","u","v","w","x","y","z">>

UpperChars == <<"A","B","C","D","E","F","G","H","I","J","K","L","M",
                "N","O","P","Q","R","S","T","U","V","W","X","Y","Z">>

\* TChar<TCHAR>::ToUpper on the letters
UpperOf ==
    [c \in {LowerChars[i] : i \in 1..Len(LowerChars)} |->
        UpperChars[CHOOSE i \in 1..Len(LowerChars) : LowerChars[i] = c]]

\* TChar<TCHAR>::ToUpper
ToUpperChar(c) == IF c \in DOMAIN UpperOf THEN UpperOf[c] ELSE c

\* FString::ToUpper
ToUpper(s) == [i \in 1..Len(s) |-> ToUpperChar(s[i])]

\* FString::operator== / operator!= compare with Stricmp: case is ignored.
EqualsIgnoreCase(s, t) == ToUpper(s) = ToUpper(t)

\* FString::IsEmpty
IsEmpty(s) == Len(s) = 0

\* FString::StartsWith(Prefix), SearchCase = ESearchCase::IgnoreCase (the default)
StartsWith(s, prefix) ==
    /\ Len(prefix) > 0
    /\ Len(s) >= Len(prefix)
    /\ EqualsIgnoreCase(SubSeq(s, 1, Len(prefix)), prefix)

\* FString::RightChop(Count): the text after the first Count characters
RightChop(s, count) ==
    IF count >= Len(s) THEN <<>> ELSE SubSeq(s, count + 1, Len(s))

\* FString::Left(Count): the first Count characters
Left(s, count) ==
    IF count <= 0 THEN <<>>
    ELSE IF count >= Len(s) THEN s ELSE SubSeq(s, 1, count)

\* FString::Mid(Start): the text from 0-based position Start on
Mid(s, start) == RightChop(s, start)

\* Whether sub occurs in s at 0-based position i (case ignored).
MatchesAt(s, sub, i) ==
    /\ i + Len(sub) <= Len(s)
    /\ EqualsIgnoreCase(SubSeq(s, i + 1, i + Len(sub)), sub)

\* FString::Find(SubStr), IgnoreCase, FromStart: the 0-based position of the
\* first occurrence, INDEX_NONE (-1) when there is none.
Find(s, sub) ==
    IF \E i \in 0..Len(s) : MatchesAt(s, sub, i)
    THEN CHOOSE i \in 0..Len(s) :
            /\ MatchesAt(s, sub, i)
            /\ \A j \in 0..(i - 1) : ~MatchesAt(s, sub, j)
    ELSE -1

\* FString::Contains(SubStr)
Contains(s, sub) == Find(s, sub) >= 0

\* FString::Split(InS, &LeftS, &RightS), FromStart: found is the return value.
Split(s, sep) ==
    LET pos == Find(s, sep) IN
    IF pos < 0
    THEN [found |-> FALSE, left |-> <<>>, right |-> <<>>]
    ELSE [found |-> TRUE, left |-> Left(s, pos), right |-> Mid(s, pos + Len(sep))]

\* The characters of s as one string, as "%s" formats them.
RECURSIVE Str(_)
Str(s) == IF s = <<>> THEN "" ELSE Head(s) \o Str(Tail(s))

Digits == <<"0","1","2","3","4","5","6","7","8","9">>

RECURSIVE NatToStr(_)
NatToStr(n) ==
    IF n < 10 THEN Digits[n + 1]
    ELSE NatToStr(n \div 10) \o Digits[(n % 10) + 1]

\* "%d" of an int32
IntToStr(n) == IF n < 0 THEN "-" \o NatToStr(0 - n) ELSE NatToStr(n)

----------------------------------------------------------------------------
(* TMap<FString, FString>: a sequence of pairs in insertion order; keys are *)
(* compared as FString compares them, ignoring case.                        *)

EmptyMap == <<>>

\* TMap::Contains
MapContains(m, key) == \E i \in 1..Len(m) : EqualsIgnoreCase(m[i].key, key)

\* TMap::Add: a pair whose key is already present replaces the stored pair.
MapAdd(m, key, value) ==
    IF MapContains(m, key)
    THEN LET i == CHOOSE j \in 1..Len(m) : EqualsIgnoreCase(m[j].key, key)
         IN  [m EXCEPT ![i] = [key |-> key, value |-> value]]
    ELSE Append(m, [key |-> key, value |-> value])

----------------------------------------------------------------------------
(* Utility functions *)

\* IsHttpResponseSuccessful with the upper limit included.
IsHttpResponseSuccessful_Inclusive(ResponseCode) ==
    ResponseCode >= 200 /\ ResponseCode <= 300

\* IsHttpResponseSuccessful without its lower limit.
IsHttpResponseSuccessful_NoLowerLimit(ResponseCode) == ResponseCode < 300

\* IsHttpResponseSuccessful
IsHttpResponseSuccessful(ResponseCode) ==
    ResponseCode >= 200 /\ ResponseCode < 300

\* GetHttpResponseCodeDescription with a fixed text for the codes it does not name.
GetHttpResponseCodeDescription_NoFallback(ResponseCode) ==
    CASE ResponseCode = 400 -> "Bad Request"
      [] ResponseCode = 404 -> "Not Found"
      [] ResponseCode = 500 -> "Internal Server Error"
      [] OTHER -> "Unknown"

\* GetHttpResponseCodeDescription
GetHttpResponseCodeDescription(ResponseCode) ==
    CASE ResponseCode = 200 -> "OK"
      [] ResponseCode = 201 -> "Created"
      [] ResponseCode = 202 -> "Accepted"
      [] ResponseCode = 204 -> "No Content"
      [] ResponseCode = 301 -> "Moved Permanently"
      [] ResponseCode = 302 -> "Found"
      [] ResponseCode = 304 -> "Not Modified"
      [] ResponseCode = 400 -> "Bad Request"
      [] ResponseCode = 401 -> "Unauthorized"
      [] ResponseCode = 403 -> "Forbidden"
      [] ResponseCode = 404 -> "Not Found"
      [] ResponseCode = 405 -> "Method Not Allowed"
      [] ResponseCode = 408 -> "Request Timeout"
      [] ResponseCode = 409 -> "Conflict"
      [] ResponseCode = 422 -> "Unprocessable Entity"
      [] ResponseCode = 429 -> "Too Many Requests"
      [] ResponseCode = 500 -> "Internal Server Error"
      [] ResponseCode = 501 -> "Not Implemented"
      [] ResponseCode = 502 -> "Bad Gateway"
      [] ResponseCode = 503 -> "Service Unavailable"
      [] ResponseCode = 504 -> "Gateway Timeout"
      [] OTHER -> "HTTP " \o IntToStr(ResponseCode)

HttpsPrefix == <<"h","t","t","p","s",":","/","/">>

HttpPrefix == <<"h","t","t","p",":","/","/">>

\* GetDomainFromURL cutting at the first slash whenever there is one.
GetDomainFromURL_SlashFirst(URL) ==
    LET Domain == IF StartsWith(URL, HttpsPrefix) THEN RightChop(URL, 8)
                  ELSE IF StartsWith(URL, HttpPrefix) THEN RightChop(URL, 7)
                  ELSE URL
        SlashIndex == Find(Domain, <<"/">>)
        QueryIndex == Find(Domain, <<"?">>)
        CutIndex == IF SlashIndex >= 0 THEN SlashIndex ELSE QueryIndex
    IN  IF CutIndex >= 0 THEN Left(Domain, CutIndex) ELSE Domain

\* GetDomainFromURL
GetDomainFromURL(URL) ==
    LET Domain == IF StartsWith(URL, HttpsPrefix) THEN RightChop(URL, 8)
                  ELSE IF StartsWith(URL, HttpPrefix) THEN RightChop(URL, 7)
                  ELSE URL
        SlashIndex == Find(Domain, <<"/">>)
        QueryIndex == Find(Domain, <<"?">>)
        CutIndex == IF SlashIndex >= 0 /\ QueryIndex >= 0
                    THEN (IF SlashIndex < QueryIndex THEN SlashIndex ELSE QueryIndex)
                    ELSE IF SlashIndex >= 0 THEN SlashIndex
                    ELSE IF QueryIndex >= 0 THEN QueryIndex
                    ELSE -1
    IN  IF CutIndex >= 0 THEN Left(Domain, CutIndex) ELSE Domain

\* IsValidURL without the test for the scheme.
IsValidURL_AnyScheme(URL) ==
    IF IsEmpty(URL) THEN FALSE
    ELSE ~(\/ Contains(URL, <<" ">>) \/ Contains(URL, <<"<">>) \/ Contains(URL, <<">">>))

\* IsValidURL
IsValidURL(URL) ==
    IF IsEmpty(URL) THEN FALSE
    ELSE IF ~StartsWith(URL, HttpPrefix) /\ ~StartsWith(URL, HttpsPrefix) THEN FALSE
    ELSE LET WithoutProtocol == IF StartsWith(URL, HttpsPrefix)
                                THEN RightChop(URL, 8) ELSE RightChop(URL, 7)
         IN  IF IsEmpty(WithoutProtocol) THEN FALSE
             ELSE IF \/ Contains(WithoutProtocol, <<" ">>)
                     \/ Contains(WithoutProtocol, <<"<">>)
                     \/ Contains(WithoutProtocol, <<">">>)
                  THEN FALSE
                  ELSE TRUE

----------------------------------------------------------------------------
(* Private helpers *)

MethodGET == <<"G","E","T">>

MethodPOST == <<"P","O","S","T">>

MethodPUT == <<"P","U","T">>

MethodDELETE == <<"D","E","L","E","T","E">>

MethodPATCH == <<"P","A","T","C","H">>

MethodHEAD == <<"H","E","A","D">>

MethodOPTIONS == <<"O","P","T","I","O","N","S">>

\* ValidateHttpRequest testing the method before the URL.
ValidateHttpRequest_MethodFirst(URL, Method) ==
    IF IsEmpty(Method)
    THEN [ok |-> FALSE, OutErrorMessage |-> "HTTP method cannot be empty"]
    ELSE IF IsEmpty(URL)
    THEN [ok |-> FALSE, OutErrorMessage |-> "URL cannot be empty"]
    ELSE IF ~IsValidURL(URL)
    THEN [ok |-> FALSE,
          OutErrorMessage |-> "Invalid URL format. URL must start with http:// or https://"]
    ELSE IF ToUpper(Method) \notin {MethodGET, MethodPOST, MethodPUT, MethodDELETE,
                                    MethodPATCH, MethodHEAD, MethodOPTIONS}
    THEN [ok |-> FALSE, OutErrorMessage |-> "Unsupported HTTP method: " \o Str(Method)]
    ELSE [ok |-> TRUE, OutErrorMessage |-> ""]

\* ValidateHttpRequest: ok is the return value, OutErrorMessage the out parameter.
ValidateHttpRequest(URL, Method) ==
    IF IsEmpty(URL)
    THEN [ok |-> FALSE, OutErrorMessage |-> "URL cannot be empty"]
    ELSE IF ~IsValidURL(URL)
    THEN [ok |-> FALSE,
          OutErrorMessage |-> "Invalid URL format. URL must start with http:// or https://"]
    ELSE IF IsEmpty(Method)
    THEN [ok |-> FALSE, OutErrorMessage |-> "HTTP method cannot be empty"]
    ELSE LET UpperMethod == ToUpper(Method) IN
         IF /\ ~EqualsIgnoreCase(UpperMethod, MethodGET)
            /\ ~EqualsIgnoreCase(UpperMethod, MethodPOST)
            /\ ~EqualsIgnoreCase(UpperMethod, MethodPUT)
            /\ ~EqualsIgnoreCase(UpperMethod, MethodDELETE)
            /\ ~EqualsIgnoreCase(UpperMethod, MethodPATCH)
            /\ ~EqualsIgnoreCase(UpperMethod, MethodHEAD)
            /\ ~EqualsIgnoreCase(UpperMethod, MethodOPTIONS)
         THEN [ok |-> FALSE,
               OutErrorMessage |-> "Unsupported HTTP method: " \o Str(Method)]
         ELSE [ok |-> TRUE, OutErrorMessage |-> ""]

HeaderContentType == <<"C","o","n","t","e","n","t","-","T","y","p","e">>

HeaderUserAgent == <<"U","s","e","r","-","A","g","e","n","t">>

\* "application/json"
ApplicationJson == <<"a","p","p","l","i","c","a","t","i","o","n","/","j","s","o","n">>

\* "UnrealEngine/5.0 HttpBlueprintAPI/1.0"
DefaultUserAgent ==
    <<"U","n","r","e","a","l","E","n","g","i","n","e","/","5",".","0"," ",
      "H","t","t","p","B","l","u","e","p","r","i","n","t","A","P","I",
      "/","1",".","0">>

\* SetTimeout(30.0f)
DefaultTimeoutSeconds == 30

\* IHttpRequest::SetHeader for every pair of Headers, in order
RECURSIVE SetHeaders(_, _)
SetHeaders(RequestHeaders, Headers) ==
    IF Headers = <<>> THEN RequestHeaders
    ELSE SetHeaders(MapAdd(RequestHeaders, Head(Headers).key, Head(Headers).value),
                    Tail(Headers))

\* The request no transport request stands for.
NoRequest == [built |-> FALSE]

\* CreateHttpRequest handing the method to the transport as the caller wrote it.
CreateHttpRequest_VerbAsGiven(URL, Method, RequestBody, Headers) ==
    [built   |-> TRUE,
     URL     |-> URL,
     Verb    |-> Method,
     Content |-> RequestBody,
     Headers |-> IF ~MapContains(Headers, HeaderUserAgent)
                 THEN MapAdd(SetHeaders(EmptyMap, Headers), HeaderUserAgent, DefaultUserAgent)
                 ELSE SetHeaders(EmptyMap, Headers),
     Timeout |-> DefaultTimeoutSeconds]

\* CreateHttpRequest setting its User-Agent whatever the caller supplied.
CreateHttpRequest_AlwaysAgent(URL, Method, RequestBody, Headers) ==
    [built   |-> TRUE,
     URL     |-> URL,
     Verb    |-> ToUpper(Method),
     Content |-> RequestBody,
     Headers |-> MapAdd(SetHeaders(EmptyMap, Headers), HeaderUserAgent, DefaultUserAgent),
     Timeout |-> DefaultTimeoutSeconds]

\* CreateHttpRequest
CreateHttpRequest(URL, Method, RequestBody, Headers) ==
    LET Applied == SetHeaders(EmptyMap, Headers) IN
    [built   |-> TRUE,
     URL     |-> URL,
     Verb    |-> ToUpper(Method),
     Content |-> IF RequestBody # "" THEN RequestBody ELSE "",
     Headers |-> IF ~MapContains(Headers, HeaderUserAgent)
                 THEN MapAdd(Applied, HeaderUserAgent, DefaultUserAgent)
                 ELSE Applied,
     Timeout |-> DefaultTimeoutSeconds]

\* FHttpResponseData as default-constructed
DefaultResponseData ==
    [bWasSuccessful      |-> FALSE,
     ResponseCode        |-> 0,
     ResponseBody        |-> "",
     ErrorMessage        |-> "",
     ResponseTimeSeconds |-> 0,
     ResponseHeaders     |-> EmptyMap]

HeaderSeparator == <<":"," ">>

\* The loop keeping the pair already stored when a key comes again.
RECURSIVE ExtractHeaders_KeepFirst(_, _)
ExtractHeaders_KeepFirst(ResponseHeaders, AllHeaders) ==
    IF AllHeaders = <<>> THEN ResponseHeaders
    ELSE LET parts == Split(Head(AllHeaders), HeaderSeparator) IN
         ExtractHeaders_KeepFirst(
            IF parts.found /\ ~MapContains(ResponseHeaders, parts.left)
            THEN MapAdd(ResponseHeaders, parts.left, parts.right)
            ELSE ResponseHeaders,
            Tail(AllHeaders))

\* ProcessHttpResponse, the loop over Response->GetAllHeaders()
RECURSIVE ExtractHeaders(_, _)
ExtractHeaders(ResponseHeaders, AllHeaders) ==
    IF AllHeaders = <<>> THEN ResponseHeaders
    ELSE LET parts == Split(Head(AllHeaders), HeaderSeparator) IN
         ExtractHeaders(IF parts.found
                        THEN MapAdd(ResponseHeaders, parts.left, parts.right)
                        ELSE ResponseHeaders,
                        Tail(AllHeaders))

\* The branch keeping the body of a response with a 2xx code only.
ResponseReceived_BodyOnSuccess(Data, Response) ==
    LET ok == IsHttpResponseSuccessful(Response.code) IN
    [Data EXCEPT
        !.ResponseCode    = Response.code,
        !.ResponseBody    = IF ok THEN Response.content ELSE "",
        !.ResponseHeaders = ExtractHeaders(EmptyMap, Response.headers),
        !.bWasSuccessful  = ok,
        !.ErrorMessage    =
            IF ~ok
            THEN "HTTP Error " \o IntToStr(Response.code) \o ": "
                    \o GetHttpResponseCodeDescription(Response.code)
            ELSE ""]

\* ProcessHttpResponse, the branch taken when the request succeeded and a
\* response is there.  Data is the FHttpResponseData filled in so far.
ResponseReceived(Data, Response) ==
    LET ok == IsHttpResponseSuccessful(Response.code) IN
    [Data EXCEPT
        !.ResponseCode    = Response.code,
        !.ResponseBody    = Response.content,
        !.ResponseHeaders = ExtractHeaders(EmptyMap, Response.headers),
        !.bWasSuccessful  = ok,
        !.ErrorMessage    =
            IF ~ok
            THEN "HTTP Error " \o IntToStr(Response.code) \o ": "
                    \o GetHttpResponseCodeDescription(Response.code)
            ELSE ""]

\* The network failure branch leaving the error message empty.
NetworkFailure_NoMessage(Data, Request, Response) ==
    [Data EXCEPT !.bWasSuccessful = FALSE, !.ResponseCode = 0]

\* The network failure branch keeping the status code of a response that is there.
NetworkFailure_KeepCode(Data, Request, Response) ==
    [Data EXCEPT
        !.bWasSuccessful = FALSE,
        !.ResponseCode   = IF Response.valid THEN Response.code ELSE 0,
        !.ErrorMessage   =
            "Network error: Request failed to complete"
                \o (IF Request.valid THEN " (URL: " \o Str(Request.URL) \o ")" ELSE "")]

\* ProcessHttpResponse, the branch taken otherwise: the request failed at the
\* network level.
NetworkFailure(Data, Request, Response) ==
    [Data EXCEPT
        !.bWasSuccessful = FALSE,
        !.ResponseCode   = 0,
        !.ErrorMessage   =
            "Network error: Request failed to complete"
                \o (IF Request.valid THEN " (URL: " \o Str(Request.URL) \o ")" ELSE "")]

\* ProcessHttpResponse.  Request is [valid, URL, ElapsedTime]; Response is
\* [valid, code, content, headers].
ProcessHttpResponse(Request, Response, bWasSuccessful) ==
    LET Timed == IF Request.valid
                 THEN [DefaultResponseData EXCEPT !.ResponseTimeSeconds = Request.ElapsedTime]
                 ELSE DefaultResponseData
    IN
    IF bWasSuccessful /\ Response.valid
    THEN ResponseReceived(Timed, Response)
    ELSE NetworkFailure(Timed, Request, Response)

----------------------------------------------------------------------------
(* The issuing call *)

GameThread == "GameThread"

\* AsyncTask(NamedThread, lambda): the queued task.  from names the function
\* whose lambda it is; args are the four values the lambda passes to the delegate.
AsyncTask(NamedThread, from, bWasSuccessful, ResponseCode, ResponseBody, ErrorMessage) ==
    [thread |-> NamedThread,
     from   |-> from,
     args   |-> [bWasSuccessful |-> bWasSuccessful,
                 ResponseCode   |-> ResponseCode,
                 ResponseBody   |-> ResponseBody,
                 ErrorMessage   |-> ErrorMessage]]

LogEntry(level, text) == [level |-> level, text |-> text]

\* The branch reporting the failed validation to the delegate only.
ValidationFailedBranch_NoLog(ErrorMessage, Bound) ==
    [passed   |-> <<"Validating", "ValidationFailed">>,
     request  |-> NoRequest,
     started  |-> FALSE,
     logged   |-> <<>>,
     queued   |-> IF Bound
                  THEN <<AsyncTask(GameThread, "MakeHttpRequestWithHeaders",
                                   FALSE, 0, "", ErrorMessage)>>
                  ELSE <<>>]

\* MakeHttpRequestWithHeaders, the branch taken when ValidateHttpRequest fails.
ValidationFailedBranch(ErrorMessage, Bound) ==
    [passed   |-> <<"Validating", "ValidationFailed">>,
     request  |-> NoRequest,
     started  |-> FALSE,
     logged   |-> <<LogEntry("Error", "HTTP Request validation failed: " \o ErrorMessage)>>,
     queued   |-> IF Bound
                  THEN <<AsyncTask(GameThread, "MakeHttpRequestWithHeaders",
                                   FALSE, 0, "", ErrorMessage)>>
                  ELSE <<>>]

\* The branch reporting the failure with a status code of its own.
ModuleUnavailableBranch_Code503(Bound) ==
    [passed   |-> <<"Validating", "Validated", "TransportUnavailable">>,
     request  |-> NoRequest,
     started  |-> FALSE,
     logged   |-> <<LogEntry("Error", "HTTP module not available")>>,
     queued   |-> IF Bound
                  THEN <<AsyncTask(GameThread, "MakeHttpRequestWithHeaders",
                                   FALSE, 503, "", "HTTP module not available")>>
                  ELSE <<>>]

\* MakeHttpRequestWithHeaders, the branch taken when the HTTP module is null.
ModuleUnavailableBranch(Bound) ==
    [passed   |-> <<"Validating", "Validated", "TransportUnavailable">>,
     request  |-> NoRequest,
     started  |-> FALSE,
     logged   |-> <<LogEntry("Error", "HTTP module not available")>>,
     queued   |-> IF Bound
                  THEN <<AsyncTask(GameThread, "MakeHttpRequestWithHeaders",
                                   FALSE, 0, "", "HTTP module not available")>>
                  ELSE <<>>]

\* MakeHttpRequestWithHeaders reporting nothing when ProcessRequest fails.
ProcessRequestBranch_Silent(URL, Method, RequestBody, Headers, Bound, bRequestStarted) ==
    [passed   |-> IF bRequestStarted
                  THEN <<"Validating", "Validated", "Dispatched">>
                  ELSE <<"Validating", "Validated", "Dispatched", "TransportStartFailed">>,
     request  |-> CreateHttpRequest(URL, Method, RequestBody, Headers),
     started  |-> bRequestStarted,
     logged   |-> <<>>,
     queued   |-> <<>>]

\* MakeHttpRequestWithHeaders with the test of bRequestStarted inverted: the
\* failure to start is reported for a request the transport accepted.
ProcessRequestBranch_InvertedTest(URL, Method, RequestBody, Headers, Bound, bRequestStarted) ==
    IF bRequestStarted
    THEN [passed   |-> <<"Validating", "Validated", "Dispatched", "TransportStartFailed">>,
          request  |-> CreateHttpRequest(URL, Method, RequestBody, Headers),
          started  |-> TRUE,
          logged   |-> <<LogEntry("Error", "Failed to start HTTP request")>>,
          queued   |-> IF Bound
                       THEN <<AsyncTask(GameThread, "MakeHttpRequestWithHeaders",
                                        FALSE, 0, "", "Failed to start HTTP request")>>
                       ELSE <<>>]
    ELSE [passed   |-> <<"Validating", "Validated", "Dispatched">>,
          request  |-> CreateHttpRequest(URL, Method, RequestBody, Headers),
          started  |-> FALSE,
          logged   |-> <<>>,
          queued   |-> <<>>]

\* MakeHttpRequestWithHeaders from CreateHttpRequest to the end.
ProcessRequestBranch(URL, Method, RequestBody, Headers, Bound, bRequestStarted) ==
    LET Request == CreateHttpRequest(URL, Method, RequestBody, Headers)
        starting == <<LogEntry("Log", "Starting HTTP " \o Str(Method)
                                        \o " request to: " \o Str(URL))>>
                    \o (IF RequestBody # ""
                        THEN <<LogEntry("Verbose", "Request body: " \o RequestBody)>>
                        ELSE <<>>)
    IN
    IF ~bRequestStarted
    THEN [passed   |-> <<"Validating", "Validated", "Dispatched", "TransportStartFailed">>,
          request  |-> Request,
          started  |-> FALSE,
          logged   |-> starting \o <<LogEntry("Error", "Failed to start HTTP request")>>,
          queued   |-> IF Bound
                       THEN <<AsyncTask(GameThread, "MakeHttpRequestWithHeaders",
                                        FALSE, 0, "", "Failed to start HTTP request")>>
                       ELSE <<>>]
    ELSE [passed   |-> <<"Validating", "Validated", "Dispatched">>,
          request  |-> Request,
          started  |-> TRUE,
          logged   |-> starting,
          queued   |-> <<>>]

\* MakeHttpRequestWithHeaders with the return after a failed validation left
\* out: the call reports the failure and goes on to build and start the request.
RequestWithHeaders_NoReturn(URL, Method, RequestBody, Headers, Bound, HttpAvailable, bRequestStarted) ==
    LET Validation == ValidateHttpRequest(URL, Method)
        failed == ValidationFailedBranch(Validation.OutErrorMessage, Bound)
        rest == ProcessRequestBranch(URL, Method, RequestBody, Headers, Bound, bRequestStarted)
    IN
    IF ~Validation.ok
    THEN [passed  |-> failed.passed,
          request |-> rest.request,
          started |-> rest.started,
          logged  |-> failed.logged \o rest.logged,
          queued  |-> failed.queued \o rest.queued]
    ELSE IF ~HttpAvailable
    THEN ModuleUnavailableBranch(Bound)
    ELSE rest

\* MakeHttpRequestWithHeaders building the request before it validates it.
RequestWithHeaders_BuildThenValidate(URL, Method, RequestBody, Headers, Bound, HttpAvailable, bRequestStarted) ==
    LET Validation == ValidateHttpRequest(URL, Method) IN
    IF ~Validation.ok
    THEN [ValidationFailedBranch(Validation.OutErrorMessage, Bound) EXCEPT
            !.request = CreateHttpRequest(URL, Method, RequestBody, Headers)]
    ELSE IF ~HttpAvailable
    THEN ModuleUnavailableBranch(Bound)
    ELSE ProcessRequestBranch(URL, Method, RequestBody, Headers, Bound, bRequestStarted)

\* What one call of MakeHttpRequestWithHeaders does.  HttpAvailable is whether
\* &FHttpModule::Get() is non-null, bRequestStarted what ProcessRequest returns.
RequestWithHeaders(URL, Method, RequestBody, Headers, Bound, HttpAvailable, bRequestStarted) ==
    LET Validation == ValidateHttpRequest(URL, Method) IN
    IF ~Validation.ok
    THEN ValidationFailedBranch(Validation.OutErrorMessage, Bound)
    ELSE IF ~HttpAvailable
    THEN ModuleUnavailableBranch(Bound)
    ELSE ProcessRequestBranch(URL, Method, RequestBody, Headers, Bound, bRequestStarted)

\* MakeHttpRequestWithHeaders running the delegate itself, in place of
\* AsyncTask, when it is called on the game thread.
MakeHttpRequestWithHeaders_Inline(r, URL, Method, RequestBody, Headers, Bound, CallerThread, HttpAvailable, bRequestStarted) ==
    \E did \in {RequestWithHeaders(URL, Method, RequestBody, Headers, Bound,
                                   HttpAvailable, bRequestStarted)} :
    /\ lifecycle[r] = <<"Created">>
    /\ \A q \in 1..(r - 1) : lifecycle[q] # <<"Created">>
    /\ issued' = [issued EXCEPT ![r] =
                    [URL |-> URL, Method |-> Method, RequestBody |-> RequestBody,
                     Headers |-> Headers, Bound |-> Bound,
                     CallerThread |-> CallerThread]]
    /\ transport' = [transport EXCEPT ![r] = did.request]
    /\ inflight' = IF did.started THEN inflight \cup {r} ELSE inflight
    /\ tasks' = [tasks EXCEPT ![r] =
                    IF CallerThread = GameThread THEN @ ELSE @ \o did.queued]
    /\ calls' = [calls EXCEPT ![r] =
                    IF CallerThread = GameThread
                    THEN @ \o [i \in 1..Len(did.queued) |->
                                  [thread |-> GameThread, args |-> did.queued[i].args]]
                    ELSE @]
    /\ log' = [log EXCEPT ![r] = @ \o did.logged]
    /\ lifecycle' = [lifecycle EXCEPT ![r] =
                        @ \o did.passed
                          \o (IF ~did.started /\ (~Bound \/ CallerThread = GameThread)
                              THEN <<"Terminal">> ELSE <<>>)]
    /\ UNCHANGED <<outcome, responseData, utility>>

\* MakeHttpRequestWithHeaders for request r, called on CallerThread with a
\* delegate that is bound or not.  A call that starts nothing and queues
\* nothing leaves the request finished.
MakeHttpRequestWithHeaders(r, URL, Method, RequestBody, Headers, Bound, CallerThread, HttpAvailable, bRequestStarted) ==
    \E did \in {RequestWithHeaders(URL, Method, RequestBody, Headers, Bound,
                                   HttpAvailable, bRequestStarted)} :
    /\ lifecycle[r] = <<"Created">>
    \* requests are numbered in the order they are issued
    /\ \A q \in 1..(r - 1) : lifecycle[q] # <<"Created">>
    /\ issued' = [issued EXCEPT ![r] =
                    [URL |-> URL, Method |-> Method, RequestBody |-> RequestBody,
                     Headers |-> Headers, Bound |-> Bound,
                     CallerThread |-> CallerThread]]
    /\ transport' = [transport EXCEPT ![r] = did.request]
    /\ inflight' = IF did.started THEN inflight \cup {r} ELSE inflight
    /\ tasks' = [tasks EXCEPT ![r] = @ \o did.queued]
    /\ log' = [log EXCEPT ![r] = @ \o did.logged]
    /\ lifecycle' = [lifecycle EXCEPT ![r] =
                        @ \o did.passed
                          \o (IF ~did.started /\ ~Bound THEN <<"Terminal">> ELSE <<>>)]
    /\ UNCHANGED <<outcome, responseData, calls, utility>>

\* MakeHttpGetRequest
MakeHttpGetRequest(r, URL, Bound, CallerThread, HttpAvailable, bRequestStarted) ==
    LET DefaultHeaders == MapAdd(EmptyMap, HeaderContentType, ApplicationJson) IN
    MakeHttpRequestWithHeaders(r, URL, MethodGET, "", DefaultHeaders, Bound,
                               CallerThread, HttpAvailable, bRequestStarted)

\* MakeHttpPostRequest
MakeHttpPostRequest(r, URL, RequestBody, ContentType, Bound, CallerThread, HttpAvailable, bRequestStarted) ==
    LET Headers == MapAdd(EmptyMap, HeaderContentType,
                          IF IsEmpty(ContentType) THEN ApplicationJson ELSE ContentType)
    IN  MakeHttpRequestWithHeaders(r, URL, MethodPOST, RequestBody, Headers, Bound,
                                   CallerThread, HttpAvailable, bRequestStarted)

----------------------------------------------------------------------------
(* Completion and dispatch *)

NoOutcome == [delivered |-> FALSE]

NoResponseData == [made |-> FALSE]

\* OnHttpRequestComplete running the delegate on the thread it was fired on.
CompletionTask_OnCurrentThread(CurrentThread, ResponseData) ==
    AsyncTask(CurrentThread, "OnHttpRequestComplete",
              ResponseData.bWasSuccessful, ResponseData.ResponseCode,
              ResponseData.ResponseBody, ResponseData.ErrorMessage)

\* OnHttpRequestComplete, the AsyncTask call: the lambda captures ResponseData
\* and is queued to the game thread whichever thread runs the handler.
CompletionTask(CurrentThread, ResponseData) ==
    AsyncTask(GameThread, "OnHttpRequestComplete",
              ResponseData.bWasSuccessful, ResponseData.ResponseCode,
              ResponseData.ResponseBody, ResponseData.ErrorMessage)

\* OnHttpRequestComplete, fired by the transport on CurrentThread for a request
\* it accepted.
OnHttpRequestComplete(r, Request, Response, bWasSuccessful, CurrentThread) ==
    \E ResponseData \in {ProcessHttpResponse(Request, Response, bWasSuccessful)} :
    /\ r \in inflight
    /\ inflight' = inflight \ {r}
    /\ outcome' = [outcome EXCEPT ![r] =
                     [delivered |-> TRUE, Request |-> Request, Response |-> Response,
                      bWasSuccessful |-> bWasSuccessful, thread |-> CurrentThread]]
    /\ responseData' = [responseData EXCEPT ![r] = ResponseData]
    /\ log' = [log EXCEPT ![r] =
                 @ \o <<LogEntry("Log", "HTTP request completed. Success: "
                            \o (IF ResponseData.bWasSuccessful THEN "true" ELSE "false")
                            \o ", Code: " \o IntToStr(ResponseData.ResponseCode))>>
                   \o (IF ~ResponseData.bWasSuccessful
                       THEN <<LogEntry("Warning", "HTTP request failed: "
                                            \o ResponseData.ErrorMessage)>>
                       ELSE <<>>)]
    /\ tasks' = [tasks EXCEPT ![r] = Append(@, CompletionTask(CurrentThread, ResponseData))]
    /\ lifecycle' = [lifecycle EXCEPT ![r] = @ \o <<"TransportCompleted", "Normalized">>]
    /\ UNCHANGED <<issued, transport, calls, utility>>

\* The task with a lambda that reads the result from a place all requests
\* share: it passes on the result of any request that has one.
RunTask_SharedResult(r) ==
    /\ tasks[r] # <<>>
    /\ tasks' = [tasks EXCEPT ![r] = Tail(@)]
    /\ \E q \in Requests :
          /\ responseData[q] # NoResponseData \/ q = r
          /\ calls' = [calls EXCEPT ![r] =
                IF ~issued[r].Bound THEN @
                ELSE Append(@, [thread |-> Head(tasks[r]).thread,
                                args |-> IF responseData[q] # NoResponseData
                                         THEN [bWasSuccessful |-> responseData[q].bWasSuccessful,
                                               ResponseCode   |-> responseData[q].ResponseCode,
                                               ResponseBody   |-> responseData[q].ResponseBody,
                                               ErrorMessage   |-> responseData[q].ErrorMessage]
                                         ELSE Head(tasks[r]).args])]
    /\ lifecycle' = [lifecycle EXCEPT ![r] = Append(@, "Terminal")]
    /\ UNCHANGED <<issued, transport, inflight, outcome, responseData, log, utility>>

\* The task with a lambda that does nothing when the delegate is not bound.
RunTask_NoUnboundLog(r) ==
    /\ tasks[r] # <<>>
    /\ tasks' = [tasks EXCEPT ![r] = Tail(@)]
    /\ calls' = [calls EXCEPT ![r] =
                   IF issued[r].Bound
                   THEN Append(@, [thread |-> Head(tasks[r]).thread,
                                   args |-> Head(tasks[r]).args])
                   ELSE @]
    /\ lifecycle' = [lifecycle EXCEPT ![r] = Append(@, "Terminal")]
    /\ UNCHANGED <<issued, transport, inflight, outcome, responseData, log, utility>>

\* The thread named in AsyncTask runs the oldest task queued for request r:
\* the lambda runs the delegate if it is bound; the lambda of
\* OnHttpRequestComplete logs a warning if it is not.
RunTask(r) ==
    /\ tasks[r] # <<>>
    /\ LET task == Head(tasks[r]) IN
       /\ tasks' = [tasks EXCEPT ![r] = Tail(@)]
       /\ calls' = [calls EXCEPT ![r] =
                      IF issued[r].Bound
                      THEN Append(@, [thread |-> task.thread, args |-> task.args])
                      ELSE @]
       /\ log' = [log EXCEPT ![r] =
                    IF ~issued[r].Bound /\ task.from = "OnHttpRequestComplete"
                    THEN Append(@, LogEntry("Warning",
                            "HTTP response received but no callback delegate was bound"))
                    ELSE @]
       /\ lifecycle' = [lifecycle EXCEPT ![r] = Append(@, "Terminal")]
    /\ UNCHANGED <<issued, transport, inflight, outcome, responseData, utility>>

----------------------------------------------------------------------------
(* Inputs *)

UrlEmpty == <<>>

\* "ftp://a"
UrlNoScheme == <<"f","t","p",":","/","/","a">>

\* "http://a"
UrlHttp == <<"h","t","t","p",":","/","/","a">>

\* "HTTP://a"
UrlHttpUpper == <<"H","T","T","P",":","/","/","a">>

\* "https://a/b"
UrlHttps == <<"h","t","t","p","s",":","/","/","a","/","b">>

\* "http://"
UrlSchemeOnly == <<"h","t","t","p",":","/","/">>

\* "http://a b"
UrlSpace == <<"h","t","t","p",":","/","/","a"," ","b">>

\* "http://a<"
UrlAngle == <<"h","t","t","p",":","/","/","a","<">>

\* "https://>"
UrlAngleClose == <<"h","t","t","p","s",":","/","/",">">>

\* "get"
MethodLowerGet == <<"g","e","t">>

\* "XY"
MethodUnknown == <<"X","Y">>

\* "pAtCh"
MethodMixedPatch == <<"p","A","t","C","h">>

\* "delete"
MethodLowerDelete == <<"d","e","l","e","t","e">>

\* "Options"
MethodCapitalOptions == <<"O","p","t","i","o","n","s">>

\* "put"
MethodLowerPut == <<"p","u","t">>

\* "hEAD"
MethodMixedHead == <<"h","E","A","D">>

\* "post"
MethodLowerPost == <<"p","o","s","t">>

\* "GETS"
MethodNearGet == <<"G","E","T","S">>

\* "text"
ContentTypeText == <<"t","e","x","t">>

\* { "User-Agent": "me" }
HeadersWithAgent == MapAdd(EmptyMap, HeaderUserAgent, <<"m","e">>)

\* { "user-agent": "me" }
HeadersLowerAgent == MapAdd(EmptyMap, <<"u","s","e","r","-","a","g","e","n","t">>, <<"m","e">>)

\* { "Content-Type": "text" }
HeadersWithType == MapAdd(EmptyMap, HeaderContentType, ContentTypeText)

\* Header lines a response may carry.
LineA1 == <<"A",":"," ","1">>

LineA2 == <<"A",":"," ","2">>

LineLowerA3 == <<"a",":"," ","3">>

LineMalformed == <<"M","a","l","f","o","r","m","e","d">>

LineNoSpace == <<"B",":","2">>

LineTwoSeparators == <<"C",":"," ","x",":"," ","y">>

HeaderLineSets ==
    { <<>>,
      <<LineA1>>,
      <<LineA1, LineA2>>,
      <<LineMalformed, LineA1, LineNoSpace>>,
      <<LineA1, LineTwoSeparators, LineLowerA3>> }

\* The codes GetHttpResponseCodeDescription names.
TableCodes ==
    {200, 201, 202, 204, 301, 302, 304, 400, 401, 403, 404, 405, 408, 409, 422, 429,
     500, 501, 502, 503, 504}

StatusCodes == TableCodes \cup {-1, 0, 199, 203, 299, 300, 418, 600}

NullResponse == [valid |-> FALSE]

Response(code, content, headers) ==
    [valid |-> TRUE, code |-> code, content |-> content, headers |-> headers]

\* What the transport may hand to OnHttpRequestComplete: a successful
\* completion carries a response; a failed one carries a response or none.
Completions(succeeded, failed) ==
    [bWasSuccessful : {TRUE}, Response : succeeded]
        \cup [bWasSuccessful : {FALSE}, Response : failed \cup {NullResponse}]

\* The inputs of the specification in which requests run concurrently.
Concurrent ==
    [requests       |-> Requests,
     urls           |-> {UrlNoScheme, UrlHttp},
     methods        |-> {MethodLowerGet},
     bodies         |-> {"b"},
     contentTypes   |-> {<<>>},
     headers        |-> {EmptyMap},
     bound          |-> BOOLEAN,
     callerThreads  |-> {GameThread},
     httpAvailable  |-> {TRUE},
     completions    |-> Completions({Response(200, "ok", <<LineA1>>)}, {}),
     threads        |-> {"HttpThread"}]

\* The inputs of the specification that follows one request through every
\* kind of input.
Single ==
    [requests       |-> {1},
     urls           |-> {UrlEmpty, UrlNoScheme, UrlHttp, UrlHttpUpper, UrlHttps,
                         UrlSchemeOnly, UrlSpace, UrlAngle, UrlAngleClose},
     methods        |-> {<<>>, MethodLowerGet, MethodUnknown},
     bodies         |-> {"", "b"},
     contentTypes   |-> {<<>>, ContentTypeText},
     headers        |-> {EmptyMap, HeadersWithAgent, HeadersLowerAgent, HeadersWithType},
     bound          |-> BOOLEAN,
     callerThreads  |-> {GameThread, "WorkerThread"},
     httpAvailable  |-> BOOLEAN,
     completions    |-> Completions(
                            {Response(c, "ok", <<LineA1>>) : c \in StatusCodes}
                                \cup {Response(c, b, h) : c \in {200, 404},
                                            b \in {"", "ok"}, h \in HeaderLineSets},
                            {Response(c, "ok", <<LineA1>>) : c \in {0, 200, 500}}),
     threads        |-> {"HttpThread", GameThread}]

\* "https://api.example.com/v1/data?x=1"
UrlExample ==
    <<"h","t","t","p","s",":","/","/","a","p","i",".","e","x","a","m","p",
      "l","e",".","c","o","m","/","v","1","/","d","a","t","a","?","x","=",
      "1">>

\* "http://x.com"
UrlXCom ==
    <<"h","t","t","p",":","/","/","x",".","c","o","m">>

\* "http://a?b/c"
UrlQueryFirst ==
    <<"h","t","t","p",":","/","/","a","?","b","/","c">>

\* "http://a/b?c"
UrlSlashFirst ==
    <<"h","t","t","p",":","/","/","a","/","b","?","c">>

\* "HTTPS://x.com/a"
UrlUpperScheme ==
    <<"H","T","T","P","S",":","/","/","x",".","c","o","m","/","a">>

\* "x.com"
UrlBare ==
    <<"x",".","c","o","m">>

\* "a?b"
UrlBareQuery ==
    <<"a","?","b">>

\* The arguments of the calls of the utility functions.
CodeRange == (0 - MaxCode)..MaxCode

DomainUrls ==
    {UrlEmpty, UrlNoScheme, UrlHttp, UrlHttpUpper, UrlHttps, UrlSchemeOnly, UrlExample,
     UrlXCom, UrlQueryFirst, UrlSlashFirst, UrlUpperScheme, UrlBare, UrlBareQuery}

\* Request->GetElapsedTime(), in seconds
ElapsedTimes == {2}

----------------------------------------------------------------------------
(* Specifications *)

NotIssued ==
    [URL |-> <<>>, Method |-> <<>>, RequestBody |-> "", Headers |-> EmptyMap,
     Bound |-> FALSE, CallerThread |-> "None"]

\* No utility function has been called.
NoUtilityCall == [fn |-> "None"]

Init ==
    /\ lifecycle = [r \in Requests |-> <<"Created">>]
    /\ issued = [r \in Requests |-> NotIssued]
    /\ transport = [r \in Requests |-> NoRequest]
    /\ inflight = {}
    /\ outcome = [r \in Requests |-> NoOutcome]
    /\ responseData = [r \in Requests |-> NoResponseData]
    /\ tasks = [r \in Requests |-> <<>>]
    /\ calls = [r \in Requests |-> <<>>]
    /\ log = [r \in Requests |-> <<>>]
    /\ utility = NoUtilityCall

\* A caller issues a GET.
IssueGet(in) ==
    \E r \in in.requests, URL \in in.urls, Bound \in in.bound,
       CallerThread \in in.callerThreads, HttpAvailable \in in.httpAvailable,
       bRequestStarted \in BOOLEAN :
        MakeHttpGetRequest(r, URL, Bound, CallerThread, HttpAvailable, bRequestStarted)

\* A caller issues a POST.
IssuePost(in) ==
    \E r \in in.requests, URL \in in.urls, RequestBody \in in.bodies,
       ContentType \in in.contentTypes, Bound \in in.bound,
       CallerThread \in in.callerThreads, HttpAvailable \in in.httpAvailable,
       bRequestStarted \in BOOLEAN :
        MakeHttpPostRequest(r, URL, RequestBody, ContentType, Bound,
                            CallerThread, HttpAvailable, bRequestStarted)

\* A caller issues a request with its own method and headers.
IssueWithHeaders(in) ==
    \E r \in in.requests, URL \in in.urls, Method \in in.methods,
       RequestBody \in in.bodies \cup {""}, Headers \in in.headers, Bound \in in.bound,
       CallerThread \in in.callerThreads, HttpAvailable \in in.httpAvailable,
       bRequestStarted \in BOOLEAN :
        MakeHttpRequestWithHeaders(r, URL, Method, RequestBody, Headers, Bound,
                                   CallerThread, HttpAvailable, bRequestStarted)

\* The transport completes request r: it passes the request itself.
TransportCompletes(in, r) ==
    /\ r \in inflight
    /\ \E c \in in.completions, CurrentThread \in in.threads, ElapsedTime \in ElapsedTimes :
          OnHttpRequestComplete(r,
              [valid |-> TRUE, URL |-> transport[r].URL, ElapsedTime |-> ElapsedTime],
              c.Response, c.bWasSuccessful, CurrentThread)

Next ==
    \/ IssueGet(Concurrent)
    \/ IssuePost(Concurrent)
    \/ IssueWithHeaders(Concurrent)
    \/ \E r \in Requests : TransportCompletes(Concurrent, r)
    \/ \E r \in Requests : RunTask(r)

Spec == Init /\ [][Next]_vars

\* The inputs of the specification with fairness: every delegate is bound
\* and no request has a body.
Answered == [Concurrent EXCEPT !.bound = {TRUE}, !.bodies = {""}]

FairNext ==
    \/ IssueGet(Answered)
    \/ IssuePost(Answered)
    \/ IssueWithHeaders(Answered)
    \/ \E r \in Requests : TransportCompletes(Answered, r)
    \/ \E r \in Requests : RunTask(r)

\* The transport fires onComplete for every request it accepted, and the game
\* thread runs every task queued to it.
Fairness ==
    \A r \in Requests :
        /\ WF_vars(TransportCompletes(Answered, r))
        /\ WF_vars(RunTask(r))

FairSpec == Init /\ [][FairNext]_vars /\ Fairness

SingleNext ==
    \/ IssueGet(Single)
    \/ IssuePost(Single)
    \/ IssueWithHeaders(Single)
    \/ TransportCompletes(Single, 1)
    \/ RunTask(1)

SingleSpec == Init /\ [][SingleNext]_vars

\* The inputs of the specification in which requests for different URLs are
\* completed with different outcomes on different threads.
Isolated ==
    [requests       |-> Requests,
     urls           |-> {UrlHttp, UrlHttps},
     bound          |-> {TRUE},
     callerThreads  |-> {GameThread},
     httpAvailable  |-> {TRUE},
     completions    |-> Completions({Response(200, "ok", <<>>), Response(404, "nf", <<>>)}, {}),
     threads        |-> {"HttpThread", "PoolThread"}]

IsolationNext ==
    \/ IssueGet(Isolated)
    \/ \E r \in Requests : TransportCompletes(Isolated, r)
    \/ \E r \in Requests : RunTask(r)

IsolationSpec == Init /\ [][IsolationNext]_vars

\* The inputs of the specification that issues requests with the methods in
\* every spelling.
Spelled ==
    [requests       |-> {1},
     urls           |-> {UrlHttp, UrlNoScheme},
     methods        |-> {<<>>, MethodUnknown, MethodNearGet,
                         MethodGET, MethodPOST, MethodPUT, MethodDELETE, MethodPATCH,
                         MethodHEAD, MethodOPTIONS,
                         MethodLowerGet, MethodLowerPost, MethodLowerPut, MethodLowerDelete,
                         MethodMixedPatch, MethodMixedHead, MethodCapitalOptions},
     bodies         |-> {"b"},
     headers        |-> {EmptyMap},
     bound          |-> BOOLEAN,
     callerThreads  |-> {GameThread},
     httpAvailable  |-> {TRUE},
     completions    |-> Completions({Response(200, "ok", <<>>)}, {}),
     threads        |-> {"HttpThread"}]

MethodNext ==
    \/ IssueWithHeaders(Spelled)
    \/ TransportCompletes(Spelled, 1)
    \/ RunTask(1)

MethodSpec == Init /\ [][MethodNext]_vars

\* A Blueprint calls IsHttpResponseSuccessful.
CallIsHttpResponseSuccessful ==
    /\ \E ResponseCode \in CodeRange :
          utility' = [fn |-> "IsHttpResponseSuccessful", in |-> ResponseCode,
                      out |-> IsHttpResponseSuccessful(ResponseCode)]
    /\ UNCHANGED <<lifecycle, issued, transport, inflight, outcome, responseData,
                   tasks, calls, log>>

\* A Blueprint calls GetDomainFromURL.
CallGetDomainFromURL ==
    /\ \E URL \in DomainUrls :
          utility' = [fn |-> "GetDomainFromURL", in |-> URL, out |-> GetDomainFromURL(URL)]
    /\ UNCHANGED <<lifecycle, issued, transport, inflight, outcome, responseData,
                   tasks, calls, log>>

UtilityNext ==
    \/ CallIsHttpResponseSuccessful
    \/ CallGetDomainFromURL

\* The utility functions, called in any order with any of the arguments.
UtilitySpec == Init /\ [][UtilityNext]_vars

----------------------------------------------------------------------------
(* Properties *)

\* The state a request is in.
StateOf(r) == lifecycle[r][Len(lifecycle[r])]

\* Whether the request passed through state st.
Passed(r, st) == \E i \in 1..Len(lifecycle[r]) : lifecycle[r][i] = st

WasIssued(r) == lifecycle[r] # <<"Created">>

\* C1: the delegate of a request issued with a bound delegate is never run
\* more than once, and it has been run exactly once when the request is in
\* its terminal state, whichever branch ended the request and however the
\* requests interleave.
C1_InvokedExactlyOnce ==
    \A r \in Requests :
        (WasIssued(r) /\ issued[r].Bound) =>
            /\ Len(calls[r]) <= 1
            /\ (StateOf(r) = "Terminal" => Len(calls[r]) = 1)

\* Two requests in flight together have both ended, one by a failed
\* validation and one by a transport completion, each with one invocation.
C1_Witness ==
    \E r1, r2 \in Requests :
        /\ issued[r1].Bound /\ issued[r2].Bound
        /\ Passed(r1, "ValidationFailed") /\ Passed(r2, "Normalized")
        /\ StateOf(r1) = "Terminal" /\ StateOf(r2) = "Terminal"
        /\ Len(calls[r1]) = 1 /\ Len(calls[r2]) = 1

\* C3: under FairSpec every request issued with a bound delegate reaches its
\* terminal state with the delegate run.
C3_EventuallyInvoked ==
    \A r \in Requests :
        (WasIssued(r) /\ issued[r].Bound)
            ~> (StateOf(r) = "Terminal" /\ Len(calls[r]) = 1)

\* A request whose transport start failed has ended with its delegate run.
C3_Witness ==
    \E r \in Requests :
        /\ issued[r].Bound
        /\ Passed(r, "TransportStartFailed")
        /\ StateOf(r) = "Terminal"
        /\ Len(calls[r]) = 1

\* The one invocation of the delegate of request r.
TheCall(r) == calls[r][1].args

\* C2: every invocation of a delegate is run by the game thread, whichever
\* thread ran the issuing call or the completion handler.
C2_InvokedOnGameThread ==
    \A r \in Requests :
        \A i \in 1..Len(calls[r]) : calls[r][i].thread = GameThread

\* A delegate has been run for a completion the transport fired on its own thread.
C2_Witness ==
    \E r \in Requests :
        /\ outcome[r].delivered
        /\ outcome[r].thread = "HttpThread"
        /\ Len(calls[r]) = 1
        /\ calls[r][1].thread = GameThread

\* Whether url begins with prefix, character for character.
BeginsExactly(url, prefix) ==
    /\ Len(url) >= Len(prefix)
    /\ \A i \in 1..Len(prefix) : url[i] = prefix[i]

\* Whether url begins with prefix, the case of letters ignored.
BeginsIgnoringCase(url, prefix) ==
    /\ Len(url) >= Len(prefix)
    /\ \A i \in 1..Len(prefix) : ToUpperChar(url[i]) = ToUpperChar(prefix[i])

\* The transport was never engaged for request r.
NeverEngaged(r) ==
    /\ ~transport[r].built
    /\ r \notin inflight
    /\ ~outcome[r].delivered
    /\ ~Passed(r, "Dispatched")

\* The delegate of request r is run once, with a failure that carries status
\* code 0, no body and an error message.
ReportedOnceAsRejected(r) ==
    /\ Len(calls[r]) <= 1
    /\ StateOf(r) = "Terminal" => Len(calls[r]) = 1
    /\ \A i \in 1..Len(calls[r]) :
          /\ calls[r][i].args.bWasSuccessful = FALSE
          /\ calls[r][i].args.ResponseCode = 0
          /\ calls[r][i].args.ResponseBody = ""
          /\ calls[r][i].args.ErrorMessage # ""

\* C4 as stated: a request whose url does not begin with the characters
\* http:// or https:// is reported once as rejected and never reaches the
\* transport.
C4_AsStated ==
    \A r \in Requests :
        (/\ WasIssued(r) /\ issued[r].Bound
         /\ ~BeginsExactly(issued[r].URL, HttpPrefix)
         /\ ~BeginsExactly(issued[r].URL, HttpsPrefix))
            => (NeverEngaged(r) /\ ReportedOnceAsRejected(r))

\* C4: a request whose url does not begin with http:// or https://, the case
\* of letters ignored, is reported once as rejected (failure, status code 0,
\* empty body, non-empty error message) and never reaches the transport.
C4_RejectedWithoutTransport ==
    \A r \in Requests :
        (/\ WasIssued(r) /\ issued[r].Bound
         /\ ~BeginsIgnoringCase(issued[r].URL, HttpPrefix)
         /\ ~BeginsIgnoringCase(issued[r].URL, HttpsPrefix))
            => (NeverEngaged(r) /\ ReportedOnceAsRejected(r))

\* The delegate of a request for "ftp://a" has been run with the rejection.
C4_Witness ==
    \E r \in Requests :
        /\ issued[r].URL = UrlNoScheme
        /\ issued[r].Bound
        /\ StateOf(r) = "Terminal"
        /\ NeverEngaged(r)
        /\ Len(calls[r]) = 1
        /\ TheCall(r).ErrorMessage =
              "Invalid URL format. URL must start with http:// or https://"

\* C5: the result made from a transport outcome is a success exactly when the
\* transport succeeded and the status code is in 200..299.
C5_SuccessIffTransportAnd2xx ==
    \A r \in Requests :
        outcome[r].delivered =>
            /\ responseData[r].bWasSuccessful <=>
                  (/\ outcome[r].bWasSuccessful
                   /\ 200 <= responseData[r].ResponseCode
                   /\ responseData[r].ResponseCode < 300)
            /\ outcome[r].Response.valid =>
                  (responseData[r].bWasSuccessful <=>
                      (/\ outcome[r].bWasSuccessful
                       /\ 200 <= outcome[r].Response.code
                       /\ outcome[r].Response.code < 300))

\* A transport success with status code 299 has been made a success.
C5_Witness ==
    \E r \in Requests :
        /\ outcome[r].delivered
        /\ outcome[r].bWasSuccessful
        /\ outcome[r].Response.valid
        /\ outcome[r].Response.code = 299
        /\ responseData[r].bWasSuccessful

\* C6: in every result queued for or passed to a delegate, the error message
\* is empty exactly when the result is a success.
C6_ErrorMessageEmptyIffSuccess ==
    \A r \in Requests :
        /\ \A i \in 1..Len(calls[r]) :
              (calls[r][i].args.ErrorMessage = "") <=> calls[r][i].args.bWasSuccessful
        /\ \A i \in 1..Len(tasks[r]) :
              (tasks[r][i].args.ErrorMessage = "") <=> tasks[r][i].args.bWasSuccessful

\* A delegate has been run with a success and an empty error message.
C6_Witness ==
    \E r \in Requests :
        /\ Len(calls[r]) = 1
        /\ TheCall(r).bWasSuccessful
        /\ TheCall(r).ErrorMessage = ""

\* The kind of failure that ended or will end request r, "None" if none.
FailureKind(r) ==
    IF Passed(r, "ValidationFailed") THEN "ValidationError"
    ELSE IF Passed(r, "TransportUnavailable") THEN "TransportUnavailable"
    ELSE IF Passed(r, "TransportStartFailed") THEN "TransportStartFailure"
    ELSE IF ~outcome[r].delivered THEN "None"
    ELSE IF ~outcome[r].bWasSuccessful THEN "NetworkFailure"
    ELSE IF ~(/\ 200 <= outcome[r].Response.code
              /\ outcome[r].Response.code < 300) THEN "HttpError"
    ELSE "None"

\* C7: a request that fails in any of the five ways has the failure passed to
\* its delegate, once, as a failure with a non-empty error message, and with
\* status code 0 for a validation error, an unavailable transport and a
\* transport that did not start; the issuing call has returned by then with
\* nothing but the queued task left behind.
C7_FailuresReachTheDelegate ==
    \A r \in Requests :
        (WasIssued(r) /\ issued[r].Bound /\ FailureKind(r) # "None") =>
            /\ Len(calls[r]) + Len(tasks[r]) = 1
            /\ StateOf(r) = "Terminal" <=> Len(calls[r]) = 1
            /\ \A i \in 1..Len(calls[r]) :
                  /\ ~calls[r][i].args.bWasSuccessful
                  /\ calls[r][i].args.ErrorMessage # ""
                  /\ FailureKind(r) \in {"ValidationError", "TransportUnavailable",
                                         "TransportStartFailure"}
                        => calls[r][i].args.ResponseCode = 0

\* The delegate of a request issued without an HTTP module has been run with
\* that failure.
C7_Witness ==
    \E r \in Requests :
        /\ FailureKind(r) = "TransportUnavailable"
        /\ StateOf(r) = "Terminal"
        /\ Len(calls[r]) = 1
        /\ ~TheCall(r).bWasSuccessful
        /\ TheCall(r).ResponseCode = 0
        /\ TheCall(r).ErrorMessage = "HTTP module not available"

\* Whether the separator ": " stands at position p of line.
SeparatorAt(line, p) ==
    /\ p + 1 <= Len(line)
    /\ line[p] = ":"
    /\ line[p + 1] = " "

HasSeparator(line) == \E p \in 1..Len(line) : SeparatorAt(line, p)

FirstSeparator(line) ==
    CHOOSE p \in 1..Len(line) :
        SeparatorAt(line, p) /\ \A q \in 1..(p - 1) : ~SeparatorAt(line, q)

\* The text before and after the first ": " of line.
NameIn(line) == SubSeq(line, 1, FirstSeparator(line) - 1)

ValueIn(line) == SubSeq(line, FirstSeparator(line) + 2, Len(line))

\* Whether two header names are the same key of the mapping: the mapping
\* compares its keys ignoring the case of letters.
SameKey(a, b) ==
    /\ Len(a) = Len(b)
    /\ \A i \in 1..Len(a) : ToUpperChar(a[i]) = ToUpperChar(b[i])

\* The values the mapping m holds for the name.
HeldFor(m, name) == {m[i].value : i \in {j \in 1..Len(m) : SameKey(m[j].key, name)}}

\* The requests whose outcome was made a result with headers.
WithHeaders == {r \in Requests :
                    /\ outcome[r].delivered
                    /\ outcome[r].bWasSuccessful
                    /\ outcome[r].Response.valid}

\* Every entry of the mapping comes from a line with a separator, and no key
\* is held twice.
OnlySeparatedLines(m, lines) ==
    /\ \A i \in 1..Len(m) :
          \E k \in 1..Len(lines) :
              /\ HasSeparator(lines[k])
              /\ NameIn(lines[k]) = m[i].key
              /\ ValueIn(lines[k]) = m[i].value
    /\ \A i, j \in 1..Len(m) : SameKey(m[i].key, m[j].key) => i = j

\* C8 as stated: each line is split at its first ": ", a line without it adds
\* nothing, and a name that occurs on several lines holds the value of the
\* first of them.
C8_AsStated ==
    \A r \in WithHeaders :
        LET lines == outcome[r].Response.headers
            m == responseData[r].ResponseHeaders
        IN  /\ OnlySeparatedLines(m, lines)
            /\ \A k \in 1..Len(lines) :
                  HasSeparator(lines[k]) =>
                      LET first == CHOOSE j \in 1..k :
                                      /\ HasSeparator(lines[j])
                                      /\ SameKey(NameIn(lines[j]), NameIn(lines[k]))
                                      /\ \A i \in 1..(j - 1) :
                                            ~(/\ HasSeparator(lines[i])
                                              /\ SameKey(NameIn(lines[i]), NameIn(lines[k])))
                      IN  HeldFor(m, NameIn(lines[k])) = {ValueIn(lines[first])}

\* C8: each line is split at its first ": ", a line without it adds nothing,
\* and a name that occurs on several lines (names compared ignoring case)
\* holds the value of the last of them.
C8_LastOccurrenceWins ==
    \A r \in WithHeaders :
        LET lines == outcome[r].Response.headers
            m == responseData[r].ResponseHeaders
        IN  /\ OnlySeparatedLines(m, lines)
            /\ \A k \in 1..Len(lines) :
                  HasSeparator(lines[k]) =>
                      LET last == CHOOSE j \in k..Len(lines) :
                                      /\ HasSeparator(lines[j])
                                      /\ SameKey(NameIn(lines[j]), NameIn(lines[k]))
                                      /\ \A i \in (j + 1)..Len(lines) :
                                            ~(/\ HasSeparator(lines[i])
                                              /\ SameKey(NameIn(lines[i]), NameIn(lines[k])))
                      IN  HeldFor(m, NameIn(lines[k])) = {ValueIn(lines[last])}

\* The lines "A: 1", "A: 2" have been made the mapping A -> 2.
C8_Witness ==
    \E r \in WithHeaders :
        /\ outcome[r].Response.headers = <<LineA1, LineA2>>
        /\ responseData[r].ResponseHeaders = <<[key |-> <<"A">>, value |-> <<"2">>]>>

\* C9: an outcome the transport reports as failed is made a failure with
\* status code 0 and the error message "Network error: Request failed to
\* complete (URL: <url of the request>)", whatever response came with it.
C9_NetworkFailureResult ==
    \A r \in Requests :
        (outcome[r].delivered /\ ~outcome[r].bWasSuccessful) =>
            /\ responseData[r].bWasSuccessful = FALSE
            /\ responseData[r].ResponseCode = 0
            /\ responseData[r].ErrorMessage =
                  "Network error: Request failed to complete (URL: "
                      \o Str(issued[r].URL) \o ")"
            /\ issued[r].URL = UrlHttp =>
                  responseData[r].ErrorMessage =
                      "Network error: Request failed to complete (URL: http://a)"

\* A failed outcome that came with a response of status code 500 has been
\* made the network failure of "http://a".
C9_Witness ==
    \E r \in Requests :
        /\ outcome[r].delivered
        /\ ~outcome[r].bWasSuccessful
        /\ outcome[r].Response.valid
        /\ outcome[r].Response.code = 500
        /\ responseData[r].ResponseCode = 0
        /\ responseData[r].ErrorMessage =
              "Network error: Request failed to complete (URL: http://a)"

\* The descriptions the specification lists.
DescriptionTable ==
    (200 :> "OK") @@ (201 :> "Created") @@ (202 :> "Accepted")
    @@ (204 :> "No Content") @@ (301 :> "Moved Permanently") @@ (302 :> "Found")
    @@ (304 :> "Not Modified") @@ (400 :> "Bad Request") @@ (401 :> "Unauthorized")
    @@ (403 :> "Forbidden") @@ (404 :> "Not Found") @@ (405 :> "Method Not Allowed")
    @@ (408 :> "Request Timeout") @@ (409 :> "Conflict")
    @@ (422 :> "Unprocessable Entity") @@ (429 :> "Too Many Requests")
    @@ (500 :> "Internal Server Error") @@ (501 :> "Not Implemented")
    @@ (502 :> "Bad Gateway") @@ (503 :> "Service Unavailable")
    @@ (504 :> "Gateway Timeout")

\* The description of a code: its entry in the table, "HTTP <code>" without one.
Described(code) ==
    IF code \in DOMAIN DescriptionTable
    THEN DescriptionTable[code]
    ELSE "HTTP " \o ToString(code)

\* C10: a transport success with a status code outside 200..299 is made a
\* failure whose error message is "HTTP Error <code>: <description>".
C10_HttpErrorMessage ==
    \A r \in WithHeaders :
        ~(200 <= outcome[r].Response.code /\ outcome[r].Response.code < 300) =>
            /\ responseData[r].ErrorMessage =
                  "HTTP Error " \o ToString(outcome[r].Response.code) \o ": "
                      \o Described(outcome[r].Response.code)
            /\ outcome[r].Response.code = 404 =>
                  responseData[r].ErrorMessage = "HTTP Error 404: Not Found"
            /\ \A i \in 1..Len(calls[r]) :
                  calls[r][i].args.ErrorMessage = responseData[r].ErrorMessage

\* The delegate has been run with "HTTP Error 418: HTTP 418".
C10_Witness ==
    \E r \in WithHeaders :
        /\ outcome[r].Response.code = 418
        /\ Len(calls[r]) = 1
        /\ TheCall(r).ErrorMessage = "HTTP Error 418: HTTP 418"

\* The text of url after its scheme.
AfterScheme(url) ==
    IF BeginsIgnoringCase(url, HttpsPrefix)
    THEN SubSeq(url, Len(HttpsPrefix) + 1, Len(url))
    ELSE SubSeq(url, Len(HttpPrefix) + 1, Len(url))

HasChar(text, c) == \E i \in 1..Len(text) : text[i] = c

AllowedMethods ==
    {MethodGET, MethodPOST, MethodPUT, MethodDELETE, MethodPATCH, MethodHEAD, MethodOPTIONS}

\* The first of the six rules the request violates, 0 if it violates none.
\* Begins is how the scheme is compared.
FirstRuleViolated(url, method, Begins(_, _)) ==
    IF url = <<>> THEN 1
    ELSE IF ~Begins(url, HttpPrefix) /\ ~Begins(url, HttpsPrefix) THEN 2
    ELSE IF AfterScheme(url) = <<>> THEN 3
    ELSE IF \E c \in {" ", "<", ">"} : HasChar(AfterScheme(url), c) THEN 4
    ELSE IF method = <<>> THEN 5
    ELSE IF [i \in 1..Len(method) |-> ToUpperChar(method[i])] \notin AllowedMethods THEN 6
    ELSE 0

\* The requests a caller may issue, as URL and method.
Issuable ==
    {<<u, m>> : u \in Single.urls, m \in Single.methods \cup {MethodGET, MethodPOST}}

\* The log entry the issuing call writes for a failed validation.
ValidationEntry(message) ==
    [level |-> "Error", text |-> "HTTP Request validation failed: " \o message]

\* The kinds of failure the validation reports: the three rules on the shape
\* of the URL are one kind.
KindOfRule(k) == IF k \in {2, 3, 4} THEN "InvalidUrl" ELSE ToString(k)

\* The message of each kind.
MessageOfRule(k, method) ==
    CASE k = 1 -> "URL cannot be empty"
      [] k \in {2, 3, 4} -> "Invalid URL format. URL must start with http:// or https://"
      [] k = 5 -> "HTTP method cannot be empty"
      [] k = 6 -> "Unsupported HTTP method: " \o Str(method)

\* C11 as stated: the validation reports the first of the six rules the
\* request violates, the scheme compared character for character, and what it
\* reports for one rule it reports for no request that first violates another.
C11_AsStated ==
    \A r \in Requests :
        WasIssued(r) =>
            LET k == FirstRuleViolated(issued[r].URL, issued[r].Method, BeginsExactly) IN
            /\ k = 0 <=> Passed(r, "Validated")
            /\ k # 0 =>
                  \A other \in Issuable :
                      FirstRuleViolated(other[1], other[2], BeginsExactly) \notin {0, k}
                          => log[r][1] # ValidationEntry(
                                ValidateHttpRequest(other[1], other[2]).OutErrorMessage)

\* C11: the validation reports the first rule the request violates, in the
\* order empty URL, scheme (the case of letters ignored), empty remainder,
\* forbidden character, empty method, unsupported method; a failure of a URL
\* rule is reported before one of a method rule; the empty URL, the empty
\* method and the unsupported method each have a message of their own, and
\* the three rules on the scheme, the remainder and its characters share one.
C11_FirstFailureReported ==
    \A r \in Requests :
        WasIssued(r) =>
            LET k == FirstRuleViolated(issued[r].URL, issued[r].Method, BeginsIgnoringCase)
                message == MessageOfRule(k, issued[r].Method)
            IN
            /\ k = 0 <=> Passed(r, "Validated")
            /\ k # 0 =>
                  /\ Passed(r, "ValidationFailed")
                  /\ log[r] = <<ValidationEntry(message)>>
                  /\ \A i \in 1..Len(tasks[r]) : tasks[r][i].args.ErrorMessage = message
                  /\ \A i \in 1..Len(calls[r]) : calls[r][i].args.ErrorMessage = message
                  /\ \A other \in Issuable :
                        LET j == FirstRuleViolated(other[1], other[2], BeginsIgnoringCase) IN
                        (j # 0 /\ KindOfRule(j) # KindOfRule(k))
                            => log[r][1] # ValidationEntry(
                                  ValidateHttpRequest(other[1], other[2]).OutErrorMessage)

\* A request for "http://a b" with no method has been reported to its
\* delegate as an invalid URL.
C11_Witness ==
    \E r \in Requests :
        /\ issued[r].URL = UrlSpace
        /\ issued[r].Method = <<>>
        /\ Len(calls[r]) = 1
        /\ TheCall(r).ErrorMessage =
              "Invalid URL format. URL must start with http:// or https://"

\* The requests for which a transport request was built.
Built == {r \in Requests : transport[r].built}

\* Every header the caller supplied is on the transport request with the
\* caller's value.
CallerHeadersKept(given, sent) ==
    \A i \in 1..Len(given) : HeldFor(sent, given[i].key) = {given[i].value}

\* C12 as stated: the transport request carries the caller's headers, and
\* Content-Type: application/json when there is a body and the caller gave no
\* Content-Type, and the User-Agent default exactly when the caller gave none.
C12_AsStated ==
    \A r \in Built :
        LET given == issued[r].Headers
            sent == transport[r].Headers
        IN  /\ CallerHeadersKept(given, sent)
            /\ (issued[r].RequestBody # "" /\ HeldFor(given, HeaderContentType) = {})
                    => HeldFor(sent, HeaderContentType) = {ApplicationJson}
            /\ HeldFor(given, HeaderUserAgent) = {}
                    <=> HeldFor(sent, HeaderUserAgent) = {DefaultUserAgent}

\* C12: the transport request carries the caller's headers with the caller's
\* values and, exactly when the caller gave no User-Agent (names compared
\* ignoring case), the User-Agent default; it carries nothing else: a
\* Content-Type is there only when the headers handed to the build have one.
C12_OnlyUserAgentDefaulted ==
    \A r \in Built :
        LET given == issued[r].Headers
            sent == transport[r].Headers
        IN  /\ CallerHeadersKept(given, sent)
            /\ HeldFor(given, HeaderUserAgent) = {}
                    <=> HeldFor(sent, HeaderUserAgent) = {DefaultUserAgent}
            /\ \A i \in 1..Len(sent) :
                  \/ \E j \in 1..Len(given) : given[j] = sent[i]
                  \/ /\ HeldFor(given, HeaderUserAgent) = {}
                     /\ sent[i] = [key |-> HeaderUserAgent, value |-> DefaultUserAgent]
            /\ HeldFor(sent, HeaderContentType) = HeldFor(given, HeaderContentType)
            /\ \A i, j \in 1..Len(sent) : SameKey(sent[i].key, sent[j].key) => i = j

\* A request with a body and no headers of the caller's has been built with
\* the User-Agent default only.
C12_Witness ==
    \E r \in Built :
        /\ issued[r].RequestBody = "b"
        /\ issued[r].Headers = EmptyMap
        /\ transport[r].Content = "b"
        /\ transport[r].Headers = <<[key |-> HeaderUserAgent, value |-> DefaultUserAgent]>>

\* The entries of the log of request r that report a problem.
Diagnostics(r) == {i \in 1..Len(log[r]) : log[r][i].level \in {"Error", "Warning"}}

\* C13: a request issued with an unbound delegate never has a delegate run;
\* it is in its terminal state exactly when nothing is left to happen for it
\* (it is not with the transport and no task is queued), and by then the log
\* holds an error or a warning for it, also when the request succeeded.
C13_UnboundOnlyLogged ==
    \A r \in Requests :
        (WasIssued(r) /\ ~issued[r].Bound) =>
            /\ calls[r] = <<>>
            /\ (r \notin inflight /\ tasks[r] = <<>>) <=> StateOf(r) = "Terminal"
            /\ StateOf(r) = "Terminal" => Diagnostics(r) # {}

\* A request with an unbound delegate has ended after a successful response,
\* with the warning that no delegate was bound as its last log entry.
C13_Witness ==
    \E r \in Requests :
        /\ WasIssued(r) /\ ~issued[r].Bound
        /\ outcome[r].delivered /\ responseData[r].bWasSuccessful
        /\ StateOf(r) = "Terminal"
        /\ calls[r] = <<>>
        /\ log[r][Len(log[r])] =
              [level |-> "Warning",
               text |-> "HTTP response received but no callback delegate was bound"]

\* The three ways through the state machine as the specification draws it.
PathValidationFailed == <<"Created", "Validating", "ValidationFailed", "Terminal">>

PathStartFailed ==
    <<"Created", "Validating", "Validated", "Dispatched", "TransportStartFailed", "Terminal">>

PathCompleted ==
    <<"Created", "Validating", "Validated", "Dispatched", "TransportCompleted",
      "Normalized", "Terminal">>

\* The way of a request issued when the HTTP module is null.
PathUnavailable ==
    <<"Created", "Validating", "Validated", "TransportUnavailable", "Terminal">>

IsPrefix(a, b) == Len(a) <= Len(b) /\ a = SubSeq(b, 1, Len(a))

\* Request r has so far gone along one of the paths.
OnOnePath(r, paths) == \E path \in paths : IsPrefix(lifecycle[r], path)

\* Nothing is pending for a request that is Terminal.
TerminalIsFinal(r) ==
    StateOf(r) = "Terminal" => (r \notin inflight /\ tasks[r] = <<>>)

FailureReports(r) ==
    {i \in Diagnostics(r) :
        log[r][i].text # "HTTP response received but no callback delegate was bound"}

\* The texts a log entry may have that reports the failure with the message.
ReportsOf(message) ==
    {message, "HTTP Request validation failed: " \o message,
     "HTTP request failed: " \o message}

\* C15: a request that failed in any way has exactly one log entry reporting
\* the failure, from the moment the failure is known; the entry carries the
\* error message the delegate is given; and it is in the log before the step
\* that runs the delegate.
C15_FailureLoggedOnceBefore ==
    /\ [](\A r \in Requests :
            (WasIssued(r) /\ FailureKind(r) # "None") =>
                /\ Cardinality(FailureReports(r)) = 1
                /\ \A i \in 1..Len(tasks[r]), j \in FailureReports(r) :
                      log[r][j].text \in ReportsOf(tasks[r][i].args.ErrorMessage)
                /\ \A i \in 1..Len(calls[r]), j \in FailureReports(r) :
                      log[r][j].text \in ReportsOf(calls[r][i].args.ErrorMessage))
    /\ [][\A r \in Requests :
            (calls'[r] # calls[r] /\ FailureKind(r) # "None") =>
                (FailureReports(r) # {} /\ log'[r] = log[r])]_vars

\* The delegate has been run with an HTTP error 404 that the log reports once.
C15_Witness ==
    \E r \in Requests :
        /\ FailureKind(r) = "HttpError"
        /\ Len(calls[r]) = 1
        /\ TheCall(r).ErrorMessage = "HTTP Error 404: Not Found"
        /\ {log[r][i] : i \in FailureReports(r)} =
              {[level |-> "Warning", text |-> "HTTP request failed: HTTP Error 404: Not Found"]}

\* C16: IsHttpResponseSuccessful returns true for the codes 200..299 and
\* false for every other code, the negative codes, 0 and the codes from 600
\* on among them.
C16_SuccessStatusRange ==
    utility.fn = "IsHttpResponseSuccessful" =>
        /\ utility.in \in 200..299 => utility.out = TRUE
        /\ utility.in \notin 200..299 => utility.out = FALSE

\* IsHttpResponseSuccessful has returned false for a negative code.
C16_Witness ==
    /\ utility.fn = "IsHttpResponseSuccessful"
    /\ utility.in < 0
    /\ utility.out = FALSE

\* The domain of url: its scheme removed, then the text before the first
\* "/" or "?".  Begins is how the scheme is compared.
DomainOf(url, Begins(_, _)) ==
    LET rest == IF Begins(url, HttpsPrefix) THEN SubSeq(url, Len(HttpsPrefix) + 1, Len(url))
                ELSE IF Begins(url, HttpPrefix) THEN SubSeq(url, Len(HttpPrefix) + 1, Len(url))
                ELSE url
        cuts == {i \in 1..Len(rest) : rest[i] \in {"/", "?"}}
    IN  IF cuts = {} THEN rest
        ELSE SubSeq(rest, 1, (CHOOSE i \in cuts : \A j \in cuts : i <= j) - 1)

\* "api.example.com"
DomainExample == <<"a","p","i",".","e","x","a","m","p","l","e",".","c","o","m">>

\* C17 as stated: GetDomainFromURL returns the text of the URL after a
\* leading https:// or http://, compared character for character, up to the
\* first "/" or "?".
C17_AsStated ==
    utility.fn = "GetDomainFromURL" => utility.out = DomainOf(utility.in, BeginsExactly)

\* C17: GetDomainFromURL returns the text of the URL after a leading https://
\* or http://, the case of letters ignored, up to the first "/" or "?",
\* whichever comes first, and the whole of it when there is neither.
C17_DomainOfUrl ==
    utility.fn = "GetDomainFromURL" =>
        /\ utility.out = DomainOf(utility.in, BeginsIgnoringCase)
        /\ utility.in = UrlExample => utility.out = DomainExample
        /\ utility.in = UrlXCom => utility.out = <<"x",".","c","o","m">>
        /\ utility.in = UrlQueryFirst => utility.out = <<"a">>

\* GetDomainFromURL has returned "a" for "http://a?b/c".
C17_Witness ==
    /\ utility.fn = "GetDomainFromURL"
    /\ utility.in = UrlQueryFirst
    /\ utility.out = <<"a">>

\* The four values a delegate is given, as the result holds them.
ArgsOf(data) ==
    [bWasSuccessful |-> data.bWasSuccessful,
     ResponseCode   |-> data.ResponseCode,
     ResponseBody   |-> data.ResponseBody,
     ErrorMessage   |-> data.ErrorMessage]

\* C18: a transport request is there only for a request that passed the
\* validation; the transport holds or has completed only a request that was
\* built; a result is there only for a request whose completion the transport
\* has fired; and a task queued by the completion handler, and the call it
\* becomes, carries the values of the finished result.
C18_StepsInOrder ==
    \A r \in Requests :
        /\ transport[r].built =>
              /\ Passed(r, "Validated")
              /\ FirstRuleViolated(issued[r].URL, issued[r].Method, BeginsIgnoringCase) = 0
        /\ (r \in inflight \/ outcome[r].delivered) =>
              (transport[r].built /\ Passed(r, "Dispatched"))
        /\ responseData[r] # NoResponseData <=> outcome[r].delivered
        /\ outcome[r].delivered => r \notin inflight
        /\ \A i \in 1..Len(tasks[r]) :
              tasks[r][i].from = "OnHttpRequestComplete" =>
                  /\ outcome[r].delivered
                  /\ DOMAIN responseData[r] = DOMAIN DefaultResponseData
                  /\ tasks[r][i].args = ArgsOf(responseData[r])
        /\ \A i \in 1..Len(calls[r]) :
              Passed(r, "Dispatched") /\ ~Passed(r, "TransportStartFailed") =>
                  /\ outcome[r].delivered
                  /\ calls[r][i].args = ArgsOf(responseData[r])

\* The delegate of a POST has been run with the result made from the
\* completion of the transport request built for it.
C18_Witness ==
    \E r \in Requests :
        /\ transport[r].built
        /\ transport[r].Verb = MethodPOST
        /\ outcome[r].delivered
        /\ Len(calls[r]) = 1
        /\ TheCall(r) = ArgsOf(responseData[r])

\* What the delegate of request r is to be given, from the outcome the
\* transport delivered for r and the URL r was issued with.
OwnResult(r) ==
    IF outcome[r].bWasSuccessful
    THEN LET code == outcome[r].Response.code IN
         [bWasSuccessful |-> code \in 200..299,
          ResponseCode   |-> code,
          ResponseBody   |-> outcome[r].Response.content,
          ErrorMessage   |-> IF code \in 200..299 THEN ""
                             ELSE "HTTP Error " \o ToString(code) \o ": " \o Described(code)]
    ELSE [bWasSuccessful |-> FALSE,
          ResponseCode   |-> 0,
          ResponseBody   |-> "",
          ErrorMessage   |-> "Network error: Request failed to complete (URL: "
                                \o Str(issued[r].URL) \o ")"]

\* All that the state holds for request r.
Owned(r) ==
    <<lifecycle[r], issued[r], transport[r], r \in inflight, outcome[r], responseData[r],
      tasks[r], calls[r], log[r]>>

\* C19: with requests in flight together and completed on any threads in any
\* order, the delegate of a completed request is given the result of its own
\* outcome, and every step changes what the state holds for one request only.
C19_ResultsAreOwn ==
    /\ [](\A r \in Requests :
            outcome[r].delivered =>
                \A i \in 1..Len(calls[r]) : calls[r][i].args = OwnResult(r))
    /\ [][\A r, q \in Requests :
            (r # q /\ Owned(r)' # Owned(r)) => Owned(q)' = Owned(q)]_vars

\* Two requests for different URLs were completed on different threads with
\* different outcomes; the delegate of the later request has been run with
\* its own result while the task of the earlier one is still queued.
C19_Witness ==
    \E r, q \in Requests :
        /\ r < q
        /\ issued[r].URL # issued[q].URL
        /\ outcome[r].delivered /\ outcome[q].delivered
        /\ outcome[r].thread # outcome[q].thread
        /\ OwnResult(r) # OwnResult(q)
        /\ tasks[r] # <<>> /\ calls[r] = <<>>
        /\ Len(calls[q]) = 1
        /\ TheCall(q) = OwnResult(q)

\* C20: the delegate of a request the transport completed successfully is
\* given the status code and the body of the response as they are, for the
\* codes in 200..299 and for the others, and with a code in 200..299 a
\* success with an empty error message; the delegate of a request that ended
\* in any other way is given the empty body.
C20_BodyAndStatusPassedOn ==
    \A r \in Requests :
        \A i \in 1..Len(calls[r]) :
            LET args == calls[r][i].args IN
            IF outcome[r].delivered /\ outcome[r].bWasSuccessful
            THEN /\ args.ResponseCode = outcome[r].Response.code
                 /\ args.ResponseBody = outcome[r].Response.content
                 /\ outcome[r].Response.code \in 200..299 =>
                       (args.bWasSuccessful /\ args.ErrorMessage = "")
                 /\ (outcome[r].Response.code = 200 /\ outcome[r].Response.content = "ok") =>
                       args = [bWasSuccessful |-> TRUE, ResponseCode |-> 200,
                               ResponseBody |-> "ok", ErrorMessage |-> ""]
            ELSE args.ResponseBody = ""

\* The delegate has been run with the body "ok" of a response with code 404.
C20_Witness ==
    \E r \in Requests :
        /\ outcome[r].delivered /\ outcome[r].bWasSuccessful
        /\ outcome[r].Response.content = "ok"
        /\ Len(calls[r]) = 1
        /\ TheCall(r) = [bWasSuccessful |-> FALSE, ResponseCode |-> 404,
                          ResponseBody |-> "ok",
                          ErrorMessage |-> "HTTP Error 404: Not Found"]

\* The method with its letters a..z made A..Z.
UpperCased(method) == [i \in 1..Len(method) |-> ToUpperChar(method[i])]

\* C21: a request with a URL that passes whose method is, its case ignored,
\* one of the seven passes the validation; the transport request built for a
\* request has the method in upper case as its verb, and the verb is one of
\* the seven for every request built, started or completed.
C21_MethodIgnoresCase ==
    \A r \in Requests :
        WasIssued(r) =>
            /\ (/\ FirstRuleViolated(issued[r].URL, MethodGET, BeginsIgnoringCase) = 0
                /\ UpperCased(issued[r].Method) \in AllowedMethods)
                    <=> Passed(r, "Validated")
            /\ (transport[r].built \/ r \in inflight \/ outcome[r].delivered) =>
                  /\ transport[r].built
                  /\ transport[r].Verb = UpperCased(issued[r].Method)
                  /\ transport[r].Verb \in AllowedMethods

\* The transport holds a request issued with the method "pAtCh" and the verb
\* PATCH.
C21_Witness ==
    \E r \in Requests :
        /\ issued[r].Method = MethodMixedPatch
        /\ r \in inflight
        /\ transport[r].Verb = MethodPATCH

\* C22: the step in which a request is issued runs no delegate, whichever
\* thread the caller is on; a delegate is run only by a step that takes the
\* oldest task queued to the game thread for a request issued before, and it
\* is given what that task carries.
C22_NeverInvokedInline ==
    [][\A r \in Requests :
        /\ lifecycle[r] = <<"Created">> => calls'[r] = <<>>
        /\ calls'[r] # calls[r] =>
              /\ WasIssued(r)
              /\ issued'[r] = issued[r]
              /\ tasks[r] # <<>>
              /\ tasks'[r] = Tail(tasks[r])
              /\ Head(tasks[r]).thread = GameThread
              /\ calls'[r] = Append(calls[r], [thread |-> GameThread,
                                              args |-> Head(tasks[r]).args])]_vars

\* A call made on the game thread has returned with the failure to start the
\* transport queued for the delegate, which has not been run.
C22_Witness ==
    \E r \in Requests :
        /\ issued[r].CallerThread = GameThread
        /\ issued[r].Bound
        /\ StateOf(r) = "TransportStartFailed"
        /\ calls[r] = <<>>
        /\ Len(tasks[r]) = 1
        /\ tasks[r][1].thread = GameThread
        /\ tasks[r][1].args.ErrorMessage = "Failed to start HTTP request"

====
